---- MODULE Spec2Model ----
(***************************************************************************)
(* A model of localaichat's vLLMSession (src/localaichat/vllm.py): the     *)
(* request builder, the non-streamed executor gen / gen_async, the         *)
(* streaming executor stream / stream_async and the two-call tool          *)
(* orchestrator gen_with_tools / gen_with_tools_async, acting on one       *)
(* session (history, running totals, default generation parameters).       *)
(*                                                                         *)
(* Text is a sequence of string atoms, so that concatenation, slicing and  *)
(* "".join are the sequence operations; the empty text <<>> is what        *)
(* Python's truth test rejects (None and "" alike).  A dict is a function  *)
(* whose DOMAIN is its key set.                                            *)
(***************************************************************************)
EXTENDS Integers, Sequences, FiniteSets, TLC

VARIABLES
    messages,                 \* ChatSession.messages: the history
    total_prompt_length,      \* running totals of the session
    total_completion_length,
    total_length,
    params,                   \* the session's default generation parameters (a dict object)
    save_messages,            \* the session-wide persistence policy
    callerParams,             \* a dict object owned by the caller, passed as the params override
    pc,                       \* where the one caller of the session is
    cur,                      \* arguments of the call in progress
    pre,                      \* the session as it was when the call in progress started
    outcome,                  \* how the last finished call ended
    lastData,                 \* payload built by the latest prepare_request
    posts,                    \* non-streamed HTTP requests issued by the call in progress
    lastResponse,             \* the parsed body of the latest non-streamed response
    lines,                    \* stream: the lines read from the response so far
    content, events,          \* stream: the delta buffer and the events yielded so far
    conn,                     \* stream: the HTTP connection of client.stream
    user_message,             \* stream: the user message prepare_request returned
    tool_choice,              \* gen_with_tools: the selection call's answer
    context_dict,             \* gen_with_tools: the tool's normalised result
    toolCalls,                \* gen_with_tools: tools invoked by the call in progress / last call
    reported,                 \* history variable: sum of the usage triples of the successful non-streamed responses
    nCalls                    \* history variable: operations started

sessionVars == <<messages, total_prompt_length, total_completion_length, total_length,
                 params, save_messages, callerParams>>
streamVars  == <<lines, content, events, conn, user_message>>
toolVars    == <<tool_choice, context_dict, toolCalls>>
vars == <<messages, total_prompt_length, total_completion_length, total_length,
          params, save_messages, callerParams, pc, cur, pre, outcome, lastData, posts, lastResponse,
          lines, content, events, conn, user_message,
          tool_choice, context_dict, toolCalls, reported, nCalls>>

----------------------------------------------------------------------------
(* Bounds of the model *)

MaxCalls == 2
MaxLines == 3

----------------------------------------------------------------------------
(* Values *)

None == "None"
NoText == <<>>
EmptyDict == <<>>

Truthy(t) == t # <<>>

DictSet(d, k, v) == [x \in (DOMAIN d) \cup {k} |-> IF x = k THEN v ELSE d[x]]

\* {**base, **over}: the keys of both, over's value where both have the key
DictMerge(base, over) ==
    [x \in (DOMAIN base) \cup (DOMAIN over) |-> IF x \in DOMAIN over THEN over[x] ELSE base[x]]

DictDrop(d, k) == [x \in (DOMAIN d) \ {k} |-> d[x]]

RECURSIVE Join(_)
Join(parts) == IF parts = <<>> THEN <<>> ELSE Head(parts) \o Join(Tail(parts))

\* vLLMSession.params and vLLMSession.system, the class defaults
DefaultParams == [k \in {"temperature"} |-> "0.3"]
DefaultSystem == <<"You are a helpful assistant.">>

tool_prompt(tools_list) ==
    <<"From the list of tools below, reply ONLY with the name of the tool ... reply with no-function.">>
        \o tools_list

NoFunction == <<"no-function">>
GroundingSuffix == <<"\n\nYou MUST use information from the context in your response.">>

\* pydantic's model_dump_json of an instance, model_json_schema of a type
model_dump_json(p) == <<"{">> \o p.val \o <<"}">>
model_json_schema(T) == [title |-> T, type |-> "object"]

IsJsonObjectText(t) == Len(t) >= 2 /\ t[1] = "{" /\ t[Len(t)] = "}"

----------------------------------------------------------------------------
(* ChatMessage and the ChatSession collaborators *)

ChatMessage(role, text) == [role |-> role, content |-> text]
NamedChatMessage(role, text, name) == [role |-> role, content |-> text, name |-> name]
AssistantMessage(role, text, finish, pl, cl, tl) ==
    [role |-> role, content |-> text, finish_reason |-> finish,
     prompt_length |-> pl, completion_length |-> cl, total_length |-> tl]

InputFields == {"role", "content", "name"}
Restrict(m) == [f \in (DOMAIN m) \cap InputFields |-> m[f]]

RECURSIVE RestrictAll(_)
RestrictAll(ms) == IF ms = <<>> THEN <<>> ELSE <<Restrict(Head(ms))>> \o RestrictAll(Tail(ms))

\* ChatSession.format_input_messages: system, the history, the new user message
format_input_messages(s, system_message, um) ==
    <<Restrict(system_message)>> \o RestrictAll(s.messages) \o <<Restrict(um)>>

\* ChatSession.add_messages: an explicit flag decides, else the session-wide policy
add_messages(s, um, am, save) ==
    IF (save = "True") \/ (save = None /\ s.save_messages)
    THEN [s EXCEPT !.messages = @ \o <<um, am>>]
    ELSE s

----------------------------------------------------------------------------
(* The session as one value, for the operators that compute a call's effect *)

Session ==
    [messages |-> messages,
     total_prompt_length |-> total_prompt_length,
     total_completion_length |-> total_completion_length,
     total_length |-> total_length,
     params |-> params,
     save_messages |-> save_messages,
     callerParams |-> callerParams]

Install(s) ==
    /\ messages' = s.messages
    /\ total_prompt_length' = s.total_prompt_length
    /\ total_completion_length' = s.total_completion_length
    /\ total_length' = s.total_length
    /\ params' = s.params
    /\ save_messages' = s.save_messages
    /\ callerParams' = s.callerParams

\* Call arguments.  params is "none" (no override), "caller" (the caller's
\* dict object) or "fresh" (a dict literal built for this call, in fresh).
Args(prompt, system, save, pm, fresh, strm, ins, outs, async) ==
    [prompt |-> prompt, system |-> system, save_messages |-> save, params |-> pm,
     fresh |-> fresh, stream |-> strm, input_schema |-> ins, output_schema |-> outs,
     async |-> async]

----------------------------------------------------------------------------
(* prepare_request *)

\* gen_params = params or self.params: which dict OBJECT the name is bound to
GenParamsTarget(s, a) ==
    IF a.params = "caller" /\ Truthy(s.callerParams) THEN "caller"
    ELSE IF a.params = "fresh" /\ Truthy(a.fresh) THEN "fresh"
    ELSE "session"

GenParamsObject(s, a) ==
    CASE GenParamsTarget(s, a) = "caller" -> s.callerParams
      [] GenParamsTarget(s, a) = "fresh" -> a.fresh
      [] OTHER -> s.params

\* gen_params["guided_json"] = ... : item assignment on that object
InjectGuidedJson(gp, a) ==
    LET g1 == IF a.input_schema # None
              THEN DictSet(gp, "guided_json", model_json_schema(a.input_schema))
              ELSE gp
    IN IF a.output_schema # None
       THEN DictSet(g1, "guided_json", model_json_schema(a.output_schema))
       ELSE g1

\* the object gen_params is bound to, after the item assignments
StoreGenParams(s, a, gp) ==
    CASE GenParamsTarget(s, a) = "caller" -> [s EXCEPT !.callerParams = gp]
      [] GenParamsTarget(s, a) = "fresh" -> s
      [] OTHER -> [s EXCEPT !.params = gp]

\* faulty variant: the instance check comes after the schema is injected
prepare_requestLateAssert(s, a) ==
    LET gen_params == InjectGuidedJson(GenParamsObject(s, a), a)
        s1 == StoreGenParams(s, a, gen_params)
        um == IF a.input_schema # None
              THEN NamedChatMessage("user", model_dump_json(a.prompt), a.input_schema)
              ELSE ChatMessage("user", a.prompt.val)
        system_message == ChatMessage("system", IF Truthy(a.system) THEN a.system ELSE DefaultSystem)
        data == DictMerge([model |-> "model",
                           messages |-> format_input_messages(s, system_message, um),
                           stream |-> a.stream],
                          gen_params)
    IN IF a.input_schema # None /\ a.prompt.type # a.input_schema
       THEN [status |-> "AssertionError", s |-> s1, data |-> EmptyDict,
             user_message |-> ChatMessage("user", NoText)]
       ELSE [status |-> "ok", s |-> s1, data |-> data, user_message |-> um]

prepare_request(s, a) ==
    LET system_message == ChatMessage("system", IF Truthy(a.system) THEN a.system ELSE DefaultSystem)
        um == IF a.input_schema # None
              THEN NamedChatMessage("user", model_dump_json(a.prompt), a.input_schema)
              ELSE ChatMessage("user", a.prompt.val)
        gen_params == InjectGuidedJson(GenParamsObject(s, a), a)
        s1 == StoreGenParams(s, a, gen_params)
        data == DictMerge([model |-> "model",
                           messages |-> format_input_messages(s, system_message, um),
                           stream |-> a.stream],
                          gen_params)
    IN IF a.input_schema # None /\ a.prompt.type # a.input_schema
       THEN [status |-> "AssertionError", s |-> s, data |-> EmptyDict,
             user_message |-> ChatMessage("user", NoText)]
       ELSE [status |-> "ok", s |-> s1, data |-> data, user_message |-> um]

\* schema_to_guided_json of the simpleaichat variant of prepare_request: one
\* mapping with an "input" and/or an "output" entry
schema_to_guided_json(input_schema, output_schema) ==
    LET schemas0 == EmptyDict
        schemas1 == IF input_schema # None
                    THEN DictSet(schemas0, "input", model_json_schema(input_schema))
                    ELSE schemas0
    IN IF output_schema # None
       THEN DictSet(schemas1, "output", model_json_schema(output_schema))
       ELSE schemas1

----------------------------------------------------------------------------
(* gen / gen_async *)

\* r["choices"][0]["message"]["content"]
ReadContent(r) ==
    IF "choices" \notin DOMAIN r THEN "KeyError"
    ELSE IF r.choices = <<>> THEN "IndexError"
    ELSE IF "message" \notin DOMAIN r.choices[1] THEN "KeyError"
    ELSE IF "content" \notin DOMAIN r.choices[1].message THEN "KeyError"
    ELSE "ok"

\* the other subscripts the ChatMessage constructor evaluates, in order
ReadMessageFields(r) ==
    IF "role" \notin DOMAIN r.choices[1].message THEN "KeyError"
    ELSE IF "finish_reason" \notin DOMAIN r.choices[1] THEN "KeyError"
    ELSE IF "usage" \notin DOMAIN r THEN "KeyError"
    ELSE IF {"prompt_tokens", "completion_tokens", "total_tokens"} \subseteq DOMAIN r.usage
         THEN "ok" ELSE "KeyError"

\* orjson.loads: a text that is no JSON document raises; a document is
\* decoded into the dict it denotes
JsonDecode(inner) ==
    IF inner # <<>> /\ inner[1] = "content:"
        THEN [choices |-> <<[delta |-> [content |-> Tail(inner)]]>>]
    ELSE IF inner = <<"role:assistant">>
        THEN [choices |-> <<[delta |-> [role |-> "assistant"]]>>]
    ELSE IF inner = <<"error">>
        THEN [error |-> "model not found"]
    ELSE [object |-> inner]

orjson_loads(t) ==
    IF IsJsonObjectText(t)
    THEN [status |-> "ok", value |-> JsonDecode(SubSeq(t, 2, Len(t) - 1))]
    ELSE [status |-> "JSONDecodeError", value |-> EmptyDict]

HasUsage(r, k) == "usage" \in DOMAIN r /\ k \in DOMAIN r.usage

\* the three += statements, one after the other
AddUsage(s, r) ==
    IF ~HasUsage(r, "prompt_tokens") THEN [status |-> "KeyError", s |-> s]
    ELSE LET s1 == [s EXCEPT !.total_prompt_length = @ + r.usage.prompt_tokens] IN
         IF ~HasUsage(r, "completion_tokens") THEN [status |-> "KeyError", s |-> s1]
         ELSE LET s2 == [s1 EXCEPT !.total_completion_length = @ + r.usage.completion_tokens] IN
              IF ~HasUsage(r, "total_tokens") THEN [status |-> "KeyError", s |-> s2]
              ELSE [status |-> "ok",
                    s |-> [s2 EXCEPT !.total_length = @ + r.usage.total_tokens]]

\* faulty variant: the re-raised KeyError does not carry the body
RaisedWithoutBody(s, status, r, data) ==
    [status |-> status, s |-> s, value |-> NoText, body |-> EmptyDict,
     data |-> data, posted |-> TRUE]

\* how a raised exception leaves gen: except KeyError re-raises with the body
\* in its message; every other exception propagates as it is
Raised(s, status, r, data) ==
    [status |-> status, s |-> s, value |-> NoText,
     body |-> IF status = "KeyError" THEN r ELSE EmptyDict,
     data |-> data, posted |-> TRUE]

Returned(s, value, r, data) ==
    [status |-> "ok", s |-> s, value |-> value, body |-> r, data |-> data, posted |-> TRUE]

\* the try block of gen, output_schema not given
GenMessageBranch(s, a, um, r, data) ==
    IF ReadContent(r) # "ok" THEN Raised(s, ReadContent(r), r, data)
    ELSE IF ReadMessageFields(r) # "ok" THEN Raised(s, ReadMessageFields(r), r, data)
    ELSE LET c == r.choices[1].message.content
             am == AssistantMessage(r.choices[1].message.role, c, r.choices[1].finish_reason,
                                    r.usage.prompt_tokens, r.usage.completion_tokens,
                                    r.usage.total_tokens)
             u == AddUsage(add_messages(s, um, am, a.save_messages), r)
         IN IF u.status = "ok" THEN Returned(u.s, c, r, data)
            ELSE Raised(u.s, u.status, r, data)

\* faulty variant: the schema path keeps the exchange in history as well
GenSchemaBranchSaving(s, a, r, data) ==
    IF ReadContent(r) # "ok" THEN Raised(s, ReadContent(r), r, data)
    ELSE LET parsed == orjson_loads(r.choices[1].message.content)
             s1 == add_messages(s, ChatMessage("user", a.prompt.val),
                                ChatMessage("assistant", r.choices[1].message.content),
                                a.save_messages)
             u == AddUsage(s1, r)
         IN IF parsed.status # "ok" THEN Raised(s, parsed.status, r, data)
            ELSE IF u.status = "ok" THEN Returned(u.s, parsed.value, r, data)
            ELSE Raised(u.s, u.status, r, data)

\* faulty variant: the schema path reads the usage figures and adds none
GenSchemaBranchNoUsage(s, a, r, data) ==
    IF ReadContent(r) # "ok" THEN Raised(s, ReadContent(r), r, data)
    ELSE LET parsed == orjson_loads(r.choices[1].message.content)
             u == AddUsage(s, r)
         IN IF parsed.status # "ok" THEN Raised(s, parsed.status, r, data)
            ELSE IF u.status = "ok" THEN Returned(s, parsed.value, r, data)
            ELSE Raised(s, u.status, r, data)

\* the try block of gen, output_schema given
GenSchemaBranch(s, a, r, data) ==
    IF ReadContent(r) # "ok" THEN Raised(s, ReadContent(r), r, data)
    ELSE LET parsed == orjson_loads(r.choices[1].message.content)
             u == AddUsage(s, r)
         IN IF parsed.status # "ok" THEN Raised(s, parsed.status, r, data)
            ELSE IF u.status = "ok" THEN Returned(u.s, parsed.value, r, data)
            ELSE Raised(u.s, u.status, r, data)

\* gen(prompt, client, system, save_messages, params, input_schema, output_schema)
\* with r the parsed body of the server's response
gen(s, a, r) ==
    LET pr == prepare_request(s, a) IN
    IF pr.status # "ok"
    THEN [status |-> pr.status, s |-> pr.s, value |-> NoText, body |-> EmptyDict,
          data |-> pr.data, posted |-> FALSE]
    ELSE IF a.output_schema = None
         THEN GenMessageBranch(pr.s, a, pr.user_message, r, pr.data)
         ELSE GenSchemaBranch(pr.s, a, r, pr.data)

----------------------------------------------------------------------------
(* stream / stream_async: one line of r.iter_lines() *)

PrefixLen == 6
DataPrefix == <<"d", "a", "t", "a", ":", " ">>
DoneText == <<"[DONE]">>

\* faulty variant: the slice starts one character early
StripPrefixShort(chunk) == SubSeq(chunk, PrefixLen, Len(chunk))

\* chunk[6:]
StripPrefix(chunk) == SubSeq(chunk, PrefixLen + 1, Len(chunk))

\* chunk_dict["choices"][0]["delta"].get("content")
ReadDelta(d) ==
    IF "choices" \notin DOMAIN d THEN [status |-> "KeyError", delta |-> NoText]
    ELSE IF d.choices = <<>> THEN [status |-> "IndexError", delta |-> NoText]
    ELSE IF "delta" \notin DOMAIN d.choices[1] THEN [status |-> "KeyError", delta |-> NoText]
    ELSE [status |-> "ok",
          delta |-> IF "content" \in DOMAIN d.choices[1].delta
                    THEN d.choices[1].delta.content ELSE NoText]

Skip(buf) == [status |-> "skip", content |-> buf, event |-> EmptyDict]

\* the body of the for loop, for one chunk, with buf the list named content
StreamChunk(buf, chunk) ==
    IF Len(chunk) = 0 THEN Skip(buf)
    ELSE IF StripPrefix(chunk) = DoneText THEN Skip(buf)
    ELSE IF orjson_loads(StripPrefix(chunk)).status # "ok"
         THEN [Skip(buf) EXCEPT !.status = "JSONDecodeError"]
    ELSE IF ReadDelta(orjson_loads(StripPrefix(chunk)).value).status # "ok"
         THEN [Skip(buf) EXCEPT !.status = ReadDelta(orjson_loads(StripPrefix(chunk)).value).status]
    ELSE IF Truthy(ReadDelta(orjson_loads(StripPrefix(chunk)).value).delta)
         THEN LET delta == ReadDelta(orjson_loads(StripPrefix(chunk)).value).delta
                  buf1 == Append(buf, delta)
              IN [status |-> "yield", content |-> buf1,
                  event |-> [delta |-> delta, response |-> Join(buf1)]]
    ELSE Skip(buf)

\* after the with block: the assistant message and add_messages
StreamFinalize(s, a, um, buf) ==
    LET assistant_message == ChatMessage("assistant", Join(buf))
    IN [s |-> add_messages(s, um, assistant_message, a.save_messages),
        assistant_message |-> assistant_message]

----------------------------------------------------------------------------
(* gen_with_tools / gen_with_tools_async *)

RECURSIVE JoinWith(_, _)
JoinWith(sep, names) ==
    IF names = <<>> THEN <<>>
    ELSE IF Len(names) = 1 THEN names
    ELSE <<Head(names), sep>> \o JoinWith(sep, Tail(names))

\* tool_names: the tools' names and the sentinel
ToolNames(tools) == Append(tools, "no-function")

\* faulty variant: the selection call leaves persistence to the session-wide policy
SelectionArgsSaved(a, tools) ==
    Args(a.prompt, tool_prompt(JoinWith("\n", ToolNames(tools))), None, "fresh",
         [temperature |-> "0.0", guided_choice |-> ToolNames(tools)],
         FALSE, None, None, a.async)

\* faulty variant: the selection call is made with the caller's params
SelectionArgsCallerParams(a, tools) ==
    Args(a.prompt, tool_prompt(JoinWith("\n", ToolNames(tools))), "False", a.params,
         EmptyDict, FALSE, None, None, a.async)

\* the arguments of Call 1, the selection call
SelectionArgs(a, tools) ==
    Args(a.prompt, tool_prompt(JoinWith("\n", ToolNames(tools))), "False", "fresh",
         [temperature |-> "0.0", guided_choice |-> ToolNames(tools)],
         FALSE, None, None, a.async)

\* faulty variant: the standard generation forgets the caller's system prompt
PlainArgsDefaultSystem(a) ==
    Args(a.prompt, NoText, a.save_messages, a.params, EmptyDict, FALSE, None, None, a.async)

\* the arguments of the standard generation done when no tool is selected
PlainArgs(a) ==
    Args(a.prompt, a.system, a.save_messages, a.params, EmptyDict, FALSE, None, None, a.async)

\* faulty variant: an unknown name falls back to the first tool
SelectedToolOrFirst(tools, choice) ==
    IF \E i \in 1..Len(tools) : <<tools[i]>> = choice
    THEN CHOOSE i \in 1..Len(tools) :
            /\ <<tools[i]>> = choice
            /\ \A j \in 1..(i - 1) : <<tools[j]>> # choice
    ELSE 1

\* next(tool for tool in tools if tool.__name__ == tool_choice): its index, 0 when exhausted
SelectedTool(tools, choice) ==
    IF \E i \in 1..Len(tools) : <<tools[i]>> = choice
    THEN CHOOSE i \in 1..Len(tools) :
            /\ <<tools[i]>> = choice
            /\ \A j \in 1..(i - 1) : <<tools[j]>> # choice
    ELSE 0

\* the tool's result made a dict, with the tool's name in it
NormalizeContext(result, name) ==
    DictSet(IF result.isStr THEN [context |-> result.value] ELSE result.value, "tool", name)

new_system(a) == (IF Truthy(a.system) THEN a.system ELSE DefaultSystem) \o GroundingSuffix
new_prompt(a, ctx) ==
    [type |-> "str", val |-> <<"Context: ">> \o ctx.context \o <<"\n\nUser: ">> \o a.prompt.val]

\* faulty variant: Call 2 is persisted like a call of the caller's
GroundedArgsSaved(a, ctx) ==
    Args(new_prompt(a, ctx), new_system(a), a.save_messages, a.params, EmptyDict, FALSE, None,
         None, a.async)

\* the arguments of Call 2
GroundedArgs(a, ctx) ==
    Args(new_prompt(a, ctx), new_system(a), "False", a.params, EmptyDict, FALSE, None, None, a.async)

\* the manual append after Call 2
GwtAppend(s, a, response) ==
    add_messages(s, ChatMessage("user", a.prompt.val), ChatMessage("assistant", response),
                 a.save_messages)

----------------------------------------------------------------------------
(* Inputs *)

Usage == <<2, 1, 3>>

Body(c) ==
    [choices |-> <<[message |-> [role |-> "assistant", content |-> c],
                    finish_reason |-> "stop"]>>,
     usage |-> [prompt_tokens |-> Usage[1], completion_tokens |-> Usage[2],
                total_tokens |-> Usage[3]]]

JsonText == <<"{", "o1", "}">>
BaseBody == Body(JsonText)

\* bodies with an expected key missing, an empty choices list, an error payload
Malformed ==
    { [error |-> "model not found"],
      DictDrop(BaseBody, "usage"),
      [BaseBody EXCEPT !.choices = <<>>],
      [BaseBody EXCEPT !.choices = <<[@[1] EXCEPT !.message = DictDrop(@, "role")]>>],
      [BaseBody EXCEPT !.usage = DictDrop(@, "completion_tokens")],
      [BaseBody EXCEPT !.usage = DictDrop(@, "total_tokens")],
      DictDrop(Body(<<"r1">>), "usage") }

GenBodies == {Body(<<"r1">>), Body(JsonText)} \cup Malformed

Tools == <<"A", "B">>
SelectionBodies ==
    {Body(<<"A">>), Body(<<"B">>), Body(NoFunction), Body(<<"r1">>), DictDrop(BaseBody, "usage")}
SecondBodies == {Body(<<"r1">>), DictDrop(Body(<<"r1">>), "usage")}
\* what a tool returns: a str, or a dict with a "context" entry
ToolResultKinds == {"str", "dict"}
ToolResult(kind) ==
    IF kind = "str"
    THEN [isStr |-> TRUE, value |-> <<"ctx">>]
    ELSE [isStr |-> FALSE, value |-> [context |-> <<"ctx">>, source |-> "kb"]]

StrPrompt == [type |-> "str", val |-> <<"x">>]
ObjPrompt == [type |-> "InT", val |-> <<"i1">>]
Systems == {NoText, <<"be brief">>}
SaveFlags == {None, "True", "False"}
OutputSchemas == {None, "OutT"}
ParamsArgs == {"none", "caller"}
\* the caller's dict: empty, overriding the default key, or naming another key
CallerDicts == {EmptyDict, [k \in {"temperature"} |-> "0.7"], [k \in {"top_p"} |-> "0.9"]}

\* a text prompt with or without an input_schema (a mismatch when given), or an
\* instance with its input_schema
PromptForms ==
    { <<StrPrompt, None>>, <<StrPrompt, "InT">>, <<ObjPrompt, "InT">> }

\* the calls of gen / gen_async and of stream / stream_async
CallArgs(strm, saves) ==
    { Args(pf[1], NoText, sv, pm, EmptyDict, strm, pf[2], o, as) :
        pf \in PromptForms, sv \in saves, pm \in ParamsArgs,
        o \in OutputSchemas, as \in BOOLEAN }

GenArgs == CallArgs(FALSE, SaveFlags)

\* the calls of gen_with_tools / gen_with_tools_async, on the tools A and B
ToolArgs ==
    { Args(StrPrompt, sy, sv, pm, EmptyDict, FALSE, None, None, as) :
        sy \in Systems, sv \in SaveFlags, pm \in ParamsArgs, as \in BOOLEAN }

\* stream calls that read a response of any lines
StreamArgs ==
    { Args(StrPrompt, NoText, sv, "none", EmptyDict, TRUE, None, None, as) :
        sv \in SaveFlags, as \in BOOLEAN }
    \cup { Args(StrPrompt, NoText, None, "none", EmptyDict, TRUE, "InT", None, FALSE) }

\* the inputs of the specification that mixes the three kinds of call: the
\* session-wide policy decides persistence, the responses are a well-formed
\* one, an error payload and one whose usage block lacks a counter
SessionGenArgs == CallArgs(FALSE, {None})
SessionStreamArgs == CallArgs(TRUE, {None})
SessionToolArgs ==
    { Args(StrPrompt, NoText, None, pm, EmptyDict, FALSE, None, None, as) :
        pm \in ParamsArgs, as \in BOOLEAN }
SessionBodies ==
    { Body(JsonText), [error |-> "model not found"],
      [BaseBody EXCEPT !.usage = DictDrop(@, "completion_tokens")] }
SessionSelectionBodies == {Body(<<"A">>), Body(NoFunction), [error |-> "model not found"]}
SessionSecondBodies == {Body(<<"r1">>), [error |-> "model not found"]}

\* lines of a streamed response
Frame(inner) == DataPrefix \o <<"{">> \o inner \o <<"}">>
DoneLine == DataPrefix \o DoneText
StreamLines ==
    { <<>>, DoneLine,
      Frame(<<"content:", "H", "e", "l">>), Frame(<<"content:", "l", "o">>),
      Frame(<<"content:">>), Frame(<<"role:assistant">>), Frame(<<"error">>),
      <<":", "k", "a">> }

----------------------------------------------------------------------------
(* State machine *)

NoArgs == Args(StrPrompt, NoText, None, "none", EmptyDict, FALSE, None, None, FALSE)
NoOutcome == [op |-> "none", status |-> "none"]
NoUserMessage == ChatMessage("user", NoText)

Init ==
    /\ messages = <<>>
    /\ total_prompt_length = 0
    /\ total_completion_length = 0
    /\ total_length = 0
    /\ params = DefaultParams
    /\ save_messages \in BOOLEAN
    /\ callerParams \in CallerDicts
    /\ pc = "idle"
    /\ cur = NoArgs
    /\ pre = Session
    /\ outcome = NoOutcome
    /\ lastData = EmptyDict
    /\ posts = 0
    /\ lastResponse = EmptyDict
    /\ lines = <<>>
    /\ content = <<>>
    /\ events = <<>>
    /\ conn = "none"
    /\ user_message = NoUserMessage
    /\ tool_choice = NoText
    /\ context_dict = EmptyDict
    /\ toolCalls = <<>>
    /\ reported = <<0, 0, 0>>
    /\ nCalls = 0

\* a call starts: the caller is idle and may still make a call
Begin(a) ==
    /\ pc = "idle"
    /\ nCalls < MaxCalls
    /\ nCalls' = nCalls + 1
    /\ cur' = a
    /\ pre' = Session

Outcome(op, a, status, value, body) ==
    [op |-> op, async |-> a.async, status |-> status, value |-> value, body |-> body]

\* the usage triple of a non-streamed response that gen returned from
Report(res) ==
    IF res.status = "ok"
    THEN <<reported[1] + res.body.usage.prompt_tokens,
           reported[2] + res.body.usage.completion_tokens,
           reported[3] + res.body.usage.total_tokens>>
    ELSE reported

\* gen (a.async = FALSE) or gen_async (a.async = TRUE), from the call to its end
Gen(a, r) ==
    /\ Begin(a)
    /\ \E res \in {gen(Session, a, r)} :
         /\ Install(res.s)
         /\ outcome' = Outcome("gen", a, res.status, res.value, res.body)
         /\ lastData' = res.data
         /\ posts' = IF res.posted THEN 1 ELSE 0
         /\ lastResponse' = IF res.posted THEN r ELSE EmptyDict
         /\ reported' = Report(res)
    /\ pc' = "returned"
    /\ UNCHANGED <<streamVars, toolVars>>

\* stream / stream_async up to the first read of r.iter_lines()
StreamStart(a) ==
    /\ Begin(a)
    /\ \E pr \in {prepare_request(Session, a)} :
         /\ Install(pr.s)
         /\ lastData' = pr.data
         /\ user_message' = pr.user_message
         /\ IF pr.status = "ok"
            THEN /\ conn' = "open"
                 /\ pc' = "stream_run"
                 /\ outcome' = outcome
            ELSE /\ conn' = conn
                 /\ pc' = "returned"
                 /\ outcome' = Outcome("stream", a, pr.status, NoText, EmptyDict)
    /\ UNCHANGED <<posts, lastResponse, lines, content, events, toolVars, reported>>

\* faulty variant: the response is not closed when the block is left
ExitWithLeak == "open"

\* leaving the with block, however it is left, closes the response
ExitWith == "closed"

\* the server sends one more line and the loop body runs on it
StreamLine(chunk) ==
    /\ pc \in {"stream_run", "stream_yield"}
    /\ Len(lines) < MaxLines
    /\ lines' = Append(lines, chunk)
    /\ \E c \in {StreamChunk(content, chunk)} :
         /\ content' = c.content
         /\ IF c.status = "yield"
            THEN /\ events' = Append(events, c.event)
                 /\ pc' = "stream_yield"
                 /\ UNCHANGED <<conn, outcome>>
            ELSE IF c.status = "skip"
            THEN /\ pc' = "stream_run"
                 /\ UNCHANGED <<events, conn, outcome>>
            ELSE /\ conn' = ExitWith
                 /\ pc' = "returned"
                 /\ outcome' = Outcome("stream", cur, c.status, NoText, EmptyDict)
                 /\ UNCHANGED events
    /\ UNCHANGED <<sessionVars, cur, pre, lastData, posts, lastResponse, user_message, toolVars,
                   reported, nCalls>>

\* the response ends: the loop and the with block are left, the message pair is
\* added; stream returns the assistant message, stream_async returns nothing
StreamEnd ==
    /\ pc \in {"stream_run", "stream_yield"}
    /\ conn' = ExitWith
    /\ \E f \in {StreamFinalize(Session, cur, user_message, content)} :
         /\ Install(f.s)
         /\ outcome' = Outcome("stream", cur, "ok",
                               IF cur.async THEN EmptyDict ELSE f.assistant_message, EmptyDict)
    /\ pc' = "returned"
    /\ UNCHANGED <<cur, pre, lastData, posts, lastResponse, lines, content, events, user_message,
                   toolVars, reported, nCalls>>

\* faulty variant: the message pair is added when the caller stops iterating too
StreamCloseFinalizing ==
    /\ pc = "stream_yield" \/ (pc = "stream_run" /\ cur.async)
    /\ conn' = ExitWith
    /\ Install(StreamFinalize(Session, cur, user_message, content).s)
    /\ outcome' = Outcome("stream", cur, "closed", NoText, EmptyDict)
    /\ pc' = "returned"
    /\ UNCHANGED <<cur, pre, lastData, posts, lastResponse, lines, content, events,
                   user_message, toolVars, reported, nCalls>>

\* the caller stops iterating (break, close of the generator, a cancelled task):
\* GeneratorExit or CancelledError is raised at the suspension point, inside the with block
StreamClose ==
    /\ pc = "stream_yield" \/ (pc = "stream_run" /\ cur.async)
    /\ conn' = ExitWith
    /\ outcome' = Outcome("stream", cur, "closed", NoText, EmptyDict)
    /\ pc' = "returned"
    /\ UNCHANGED <<sessionVars, cur, pre, lastData, posts, lastResponse, lines, content, events,
                   user_message, toolVars, reported, nCalls>>

\* gen_with_tools / gen_with_tools_async: Call 1, the selection call
GwtSelect(a, r) ==
    /\ Begin(a)
    /\ \E res \in {gen(Session, SelectionArgs(a, Tools), r)} :
         /\ Install(res.s)
         /\ lastData' = res.data
         /\ reported' = Report(res)
         /\ tool_choice' = res.value
         /\ IF res.status = "ok"
            THEN /\ pc' = "gwt_selected"
                 /\ outcome' = outcome
            ELSE /\ pc' = "returned"
                 /\ outcome' = Outcome("gen_with_tools", a, res.status, NoText, res.body)
    /\ posts' = 1
    /\ lastResponse' = r
    /\ UNCHANGED <<streamVars, context_dict, toolCalls>>

\* no tool selected: a standard generation
GwtNoTool(r) ==
    /\ pc = "gwt_selected"
    /\ tool_choice = NoFunction
    /\ \E res \in {gen(Session, PlainArgs(cur), r)} :
         /\ Install(res.s)
         /\ lastData' = res.data
         /\ reported' = Report(res)
         /\ outcome' = Outcome("gen_with_tools", cur, res.status,
                               IF res.status = "ok"
                               THEN [response |-> res.value, tool |-> None]
                               ELSE EmptyDict,
                               res.body)
    /\ posts' = posts + 1
    /\ lastResponse' = r
    /\ pc' = "returned"
    /\ UNCHANGED <<cur, pre, streamVars, toolVars, nCalls>>

\* a name was selected: look the tool up and run it on the prompt
GwtRunTool(kind) ==
    /\ pc = "gwt_selected"
    /\ tool_choice # NoFunction
    /\ IF SelectedTool(Tools, tool_choice) = 0
       THEN /\ pc' = "returned"
            /\ outcome' = Outcome("gen_with_tools", cur,
                                  IF cur.async THEN "RuntimeError" ELSE "StopIteration",
                                  NoText, EmptyDict)
            /\ UNCHANGED <<context_dict, toolCalls>>
       ELSE /\ toolCalls' = Append(toolCalls, [tool |-> Tools[SelectedTool(Tools, tool_choice)],
                                            prompt |-> cur.prompt.val, returns |-> kind])
            /\ context_dict' = NormalizeContext(ToolResult(kind), Tools[SelectedTool(Tools, tool_choice)])
            /\ pc' = "gwt_tool_done"
            /\ outcome' = outcome
    /\ UNCHANGED <<sessionVars, cur, pre, lastData, posts, lastResponse, streamVars, tool_choice,
                   reported, nCalls>>

\* Call 2 with the tool's context, then the manual append and the return
GwtSecond(r) ==
    /\ pc = "gwt_tool_done"
    /\ \E res \in {gen(Session, GroundedArgs(cur, context_dict), r)} :
         /\ lastData' = res.data
         /\ reported' = Report(res)
         /\ IF res.status = "ok"
            THEN /\ Install(GwtAppend(res.s, cur, res.value))
                 /\ context_dict' = DictSet(context_dict, "response", res.value)
                 /\ outcome' = Outcome("gen_with_tools", cur, "ok",
                                       DictSet(context_dict, "response", res.value), res.body)
            ELSE /\ Install(res.s)
                 /\ context_dict' = context_dict
                 /\ outcome' = Outcome("gen_with_tools", cur, res.status, EmptyDict, res.body)
    /\ posts' = posts + 1
    /\ lastResponse' = r
    /\ pc' = "returned"
    /\ UNCHANGED <<cur, pre, streamVars, tool_choice, toolCalls, nCalls>>

\* the caller takes the result (or the exception); nothing of the call is kept
Return ==
    /\ pc = "returned"
    /\ pc' = "idle"
    /\ cur' = NoArgs
    /\ pre' = Session
    /\ outcome' = NoOutcome
    /\ lastData' = EmptyDict
    /\ posts' = 0
    /\ lastResponse' = EmptyDict
    /\ lines' = <<>>
    /\ content' = <<>>
    /\ events' = <<>>
    /\ conn' = "none"
    /\ user_message' = NoUserMessage
    /\ tool_choice' = NoText
    /\ context_dict' = EmptyDict
    /\ toolCalls' = <<>>
    /\ UNCHANGED <<sessionVars, reported, nCalls>>

\* the lines the server sends in the specification that mixes the calls
SessionLines == {Frame(<<"content:", "H", "e", "l">>), Frame(<<"error">>)}

\* any sequence of calls of the three kinds on one session
Next ==
    \/ \E a \in SessionGenArgs, r \in SessionBodies : Gen(a, r)
    \/ \E a \in SessionStreamArgs : StreamStart(a)
    \/ \E chunk \in SessionLines : StreamLine(chunk)
    \/ StreamEnd
    \/ StreamClose
    \/ \E a \in SessionToolArgs, r \in SessionSelectionBodies : GwtSelect(a, r)
    \/ \E r \in SessionSecondBodies : GwtNoTool(r)
    \/ \E kind \in ToolResultKinds : GwtRunTool(kind)
    \/ \E r \in SessionSecondBodies : GwtSecond(r)
    \/ Return

Spec == Init /\ [][Next]_vars

\* the non-streamed executor alone: every call form on every response body
NextGen ==
    \/ \E a \in GenArgs, r \in GenBodies : Gen(a, r)
    \/ Return

SpecGen == Init /\ [][NextGen]_vars

\* the streaming executor alone: one call on a new session, reading every
\* response of at most MaxLines lines
NextStream ==
    \/ \E a \in StreamArgs : nCalls = 0 /\ StreamStart(a)
    \/ \E chunk \in StreamLines : StreamLine(chunk)
    \/ StreamEnd
    \/ StreamClose
    \/ Return

SpecStream == Init /\ [][NextStream]_vars

\* the tool orchestrator alone
NextTools ==
    \/ \E a \in ToolArgs, r \in SelectionBodies : GwtSelect(a, r)
    \/ \E r \in SecondBodies : GwtNoTool(r)
    \/ \E kind \in ToolResultKinds : GwtRunTool(kind)
    \/ \E r \in SecondBodies : GwtSecond(r)
    \/ Return

SpecTools == Init /\ [][NextTools]_vars

----------------------------------------------------------------------------
(* Properties *)

Ended(op) == pc = "returned" /\ outcome.op = op

\* the flag and the session-wide policy together say the pair is kept
Persisting == cur.save_messages = "True" \/ (cur.save_messages = None /\ pre.save_messages)

Totals == <<total_prompt_length, total_completion_length, total_length>>

\* C1: the three running totals are the component-wise sum of the usage
\* triples of the successful non-streamed responses; streamed calls add nothing
C1_TotalsAreSumOfReported == Totals = reported

\* C2: a payload built with neither input_schema nor output_schema, for a call
\* whose override (if any) holds no guided_json, has no guided_json key
C2_NoGuidedJsonWithoutSchema ==
    ( /\ lastData # EmptyDict
      /\ cur.input_schema = None
      /\ cur.output_schema = None
      /\ cur.params = "none" \/ "guided_json" \notin DOMAIN pre.callerParams )
    => "guided_json" \notin DOMAIN lastData

\* C3: during and after a call the session's default parameters and the
\* caller's override hold what they held when the call started
C3_ParamsUnchanged == params = pre.params /\ callerParams = pre.callerParams

InStream == pc \in {"stream_run", "stream_yield"} \/ Ended("stream")

\* a frame whose choices[0].delta.content is present and not empty, and that content
IsContentFrame(l) ==
    /\ Len(l) > PrefixLen + 3
    /\ SubSeq(l, 1, PrefixLen) = DataPrefix
    /\ l[PrefixLen + 1] = "{"
    /\ l[PrefixLen + 2] = "content:"
    /\ l[Len(l)] = "}"
FrameContent(l) == SubSeq(l, PrefixLen + 3, Len(l) - 1)

RECURSIVE Deltas(_)
Deltas(ls) ==
    IF ls = <<>> THEN <<>>
    ELSE (IF IsContentFrame(Head(ls)) THEN <<FrameContent(Head(ls))>> ELSE <<>>)
         \o Deltas(Tail(ls))

\* the k-th event carries the k-th delta and the concatenation of the first k
EventsOf(ds) == [k \in 1..Len(ds) |-> [delta |-> ds[k], response |-> Join(SubSeq(ds, 1, k))]]

\* C4: the events yielded are, in order, one per frame read whose content is
\* present and non-empty, each with the text so far; other lines yield nothing;
\* the finalized assistant message is the concatenation of the deltas
C4_EventsFollowFrames ==
    /\ InStream => events = EventsOf(Deltas(lines))
    /\ (Ended("stream") /\ outcome.status = "ok") =>
          /\ ~outcome.async =>
                outcome.value = [role |-> "assistant", content |-> Join(Deltas(lines))]
          /\ messages = pre.messages \o
                (IF Persisting
                 THEN <<user_message, [role |-> "assistant", content |-> Join(Deltas(lines))]>>
                 ELSE <<>>)

C4_Witness ==
    /\ Ended("stream")
    /\ outcome.status = "ok"
    /\ Persisting
    /\ lines = <<Frame(<<"content:", "H", "e", "l">>), Frame(<<"content:", "l", "o">>), DoneLine>>
    /\ events = << [delta |-> <<"H", "e", "l">>, response |-> <<"H", "e", "l">>],
                   [delta |-> <<"l", "o">>, response |-> <<"H", "e", "l", "l", "o">>] >>

\* the lines up to the first [DONE] line
RECURSIVE UntilDone(_)
UntilDone(ls) ==
    IF ls = <<>> \/ Head(ls) = DoneLine THEN <<>>
    ELSE <<Head(ls)>> \o UntilDone(Tail(ls))

\* C5: a [DONE] line ends the stream: no line after it is read, and the
\* events and the finalized message come from the frames before it only
C5_DoneTerminates ==
    InStream =>
       /\ \A i \in 1..(Len(lines) - 1) : lines[i] # DoneLine
       /\ events = EventsOf(Deltas(UntilDone(lines)))

\* C9: the connection is open exactly while the stream call is in its with
\* block; once the call has ended, however it ended, it is not open
C9_ConnectionReleased ==
    /\ pc \in {"stream_run", "stream_yield"} => conn = "open"
    /\ pc \in {"idle", "returned"} => conn # "open"

C9_Witness ==
    /\ Ended("stream")
    /\ outcome.status = "closed"
    /\ events # <<>>
    /\ conn = "closed"

GwtDone == Ended("gen_with_tools") /\ outcome.status = "ok"

\* C6: with tool A selected and A(prompt) returning the str ctx, the call
\* returns {context: ctx, tool: A, response: Call 2's output}, and what it adds
\* to history (when persisting) is the original prompt and that response; no
\* context-wrapped prompt and no system prompt is ever in history
C6_ToolBranchResult ==
    /\ \A i \in 1..Len(messages) :
          /\ messages[i].role \in {"user", "assistant"}
          /\ messages[i].content # <<>> => messages[i].content[1] # "Context: "
    /\ (GwtDone /\ toolCalls # <<>> /\ toolCalls[1].returns = "str") =>
          /\ <<toolCalls[1].tool>> = tool_choice
          /\ toolCalls[1].prompt = cur.prompt.val
          /\ outcome.value = [context |-> <<"ctx">>, tool |-> toolCalls[1].tool,
                              response |-> lastResponse.choices[1].message.content]
          /\ messages = pre.messages \o
                (IF Persisting
                 THEN << [role |-> "user", content |-> cur.prompt.val],
                         [role |-> "assistant",
                          content |-> lastResponse.choices[1].message.content] >>
                 ELSE <<>>)

C6_Witness ==
    /\ GwtDone
    /\ tool_choice = <<"A">>
    /\ toolCalls = <<[tool |-> "A", prompt |-> <<"x">>, returns |-> "str"]>>
    /\ Persisting
    /\ Len(messages) = Len(pre.messages) + 2

\* C7: with the sentinel selected no tool runs and the call does what one gen
\* call with the caller's prompt, system, params and save flag does on the
\* same response, returning {response: its output, tool: None}
C7_NoToolIsPlainGeneration ==
    (Ended("gen_with_tools") /\ posts = 2 /\ tool_choice = NoFunction) =>
        /\ toolCalls = <<>>
        /\ outcome.status = gen(pre, cur, lastResponse).status
        /\ lastData = gen(pre, cur, lastResponse).data
        /\ messages = gen(pre, cur, lastResponse).s.messages
        /\ params = gen(pre, cur, lastResponse).s.params
        /\ callerParams = gen(pre, cur, lastResponse).s.callerParams
        /\ outcome.status = "ok" =>
              outcome.value = [response |-> gen(pre, cur, lastResponse).value, tool |-> None]

C7_Witness ==
    /\ GwtDone
    /\ tool_choice = NoFunction
    /\ cur.system # NoText
    /\ cur.params = "caller"
    /\ callerParams # EmptyDict
    /\ Persisting
    /\ outcome.value.tool = None

\* C8: a completed gen_with_tools call adds exactly one user+assistant pair
\* when persistence is in effect and nothing otherwise; until it completes,
\* history is what it was: the selection call and Call 2 add nothing
C8_OnePairPerToolCall ==
    /\ pc \in {"gwt_selected", "gwt_tool_done"} => messages = pre.messages
    /\ GwtDone =>
          /\ Len(messages) = Len(pre.messages) + (IF Persisting THEN 2 ELSE 0)
          /\ SubSeq(messages, 1, Len(pre.messages)) = pre.messages
          /\ Persisting =>
                /\ messages[Len(messages) - 1].role = "user"
                /\ messages[Len(messages)].role = "assistant"

C8_Witness ==
    /\ GwtDone
    /\ toolCalls # <<>>
    /\ cur.save_messages = None
    /\ Persisting
    /\ Len(pre.messages) = 2
    /\ Len(messages) = 4

\* the keys of the non-streamed response shape
LacksExpectedKey(r) ==
    \/ "choices" \notin DOMAIN r
    \/ "usage" \notin DOMAIN r
    \/ /\ "usage" \in DOMAIN r
       /\ ~({"prompt_tokens", "completion_tokens", "total_tokens"} \subseteq DOMAIN r.usage)
    \/ /\ "choices" \in DOMAIN r
       /\ r.choices # <<>>
       /\ \/ ~({"message", "finish_reason"} \subseteq DOMAIN r.choices[1])
          \/ /\ "message" \in DOMAIN r.choices[1]
             /\ ~({"role", "content"} \subseteq DOMAIN r.choices[1].message)

\* the keys a call reads: role and finish_reason only without an output_schema
LacksReadKey(r, output_schema) ==
    \/ "choices" \notin DOMAIN r
    \/ "usage" \notin DOMAIN r
    \/ /\ "usage" \in DOMAIN r
       /\ ~({"prompt_tokens", "completion_tokens", "total_tokens"} \subseteq DOMAIN r.usage)
    \/ /\ "choices" \in DOMAIN r
       /\ r.choices # <<>>
       /\ \/ "message" \notin DOMAIN r.choices[1]
          \/ /\ "message" \in DOMAIN r.choices[1]
             /\ "content" \notin DOMAIN r.choices[1].message
          \/ /\ output_schema = None
             /\ \/ "finish_reason" \notin DOMAIN r.choices[1]
                \/ /\ "message" \in DOMAIN r.choices[1]
                   /\ "role" \notin DOMAIN r.choices[1].message

\* no other exception is raised before the missing key is read: the choices
\* list is not empty and, with an output_schema, the content parses as JSON
NothingElseRaised(r, output_schema) ==
    /\ "choices" \in DOMAIN r => r.choices # <<>>
    /\ ( /\ output_schema # None
         /\ "choices" \in DOMAIN r
         /\ r.choices # <<>>
         /\ "message" \in DOMAIN r.choices[1]
         /\ "content" \in DOMAIN r.choices[1].message )
       => IsJsonObjectText(r.choices[1].message.content)

GenFailure ==
    /\ outcome.status = "KeyError"
    /\ outcome.body = lastResponse
    /\ outcome.value = NoText
    /\ posts = 1

Mismatch(a) == a.input_schema # None /\ a.prompt.type # a.input_schema

PreTotals == <<pre.total_prompt_length, pre.total_completion_length, pre.total_length>>

\* C11: a call of gen / stream (or the async forms) whose prompt is not an
\* instance of its input_schema ends with the assertion's error, no request
\* having been issued and no connection opened, and leaves history, the running
\* totals and the generation parameters as they were; no such call gets as far
\* as reading a response
C11_TypeMismatchBeforeRequest ==
    /\ pc \in {"stream_run", "stream_yield"} => ~Mismatch(cur)
    /\ (pc = "returned" /\ outcome.op \in {"gen", "stream"} /\ Mismatch(cur)) =>
          /\ outcome.status = "AssertionError"
          /\ posts = 0
          /\ conn = "none"
          /\ lastData = EmptyDict
          /\ lastResponse = EmptyDict
          /\ messages = pre.messages
          /\ Totals = PreTotals
          /\ params = pre.params
          /\ callerParams = pre.callerParams

C11_Witness ==
    /\ Ended("stream")
    /\ cur.async
    /\ Mismatch(cur)
    /\ cur.output_schema # None
    /\ outcome.status = "AssertionError"
    /\ pre.messages # <<>>
    /\ pre.total_length > 0

\* the selection call answered a name that is neither the sentinel nor a tool's
UnknownChoice ==
    /\ tool_choice # NoText
    /\ tool_choice # NoFunction
    /\ \A i \in 1..Len(Tools) : <<Tools[i]>> # tool_choice

\* C12: when the selection call returns a name that is neither the sentinel
\* nor the name of a supplied tool, gen_with_tools ends with the lookup's error
\* (StopIteration from next, RuntimeError in the coroutine): no tool is invoked,
\* the selection request is the only request, and history is unchanged
C12_UnknownToolFails ==
    /\ (pc = "gwt_tool_done" \/ toolCalls # <<>>) => ~UnknownChoice
    /\ (Ended("gen_with_tools") /\ UnknownChoice) =>
          /\ outcome.status = (IF cur.async THEN "RuntimeError" ELSE "StopIteration")
          /\ outcome.value = NoText
          /\ toolCalls = <<>>
          /\ context_dict = EmptyDict
          /\ posts = 1
          /\ messages = pre.messages

C12_Witness ==
    /\ Ended("gen_with_tools")
    /\ tool_choice = <<"r1">>
    /\ outcome.status = "StopIteration"
    /\ cur.save_messages = "True"
    /\ posts = 1

\* a payload was built for a call that names a schema
SchemaPayload ==
    /\ pc = "returned"
    /\ outcome.op = "gen"
    /\ lastData # EmptyDict
    /\ (cur.input_schema # None \/ cur.output_schema # None)

\* C13: the guided_json of a payload built with a schema is a mapping with an
\* "input" entry, the input type's JSON Schema, exactly when input_schema is
\* given and an "output" entry, the output type's JSON Schema, exactly when
\* output_schema is given
C13_GuidedJsonCombinesSchemas ==
    SchemaPayload =>
        /\ "guided_json" \in DOMAIN lastData
        /\ ("input" \in DOMAIN lastData.guided_json) <=> (cur.input_schema # None)
        /\ ("output" \in DOMAIN lastData.guided_json) <=> (cur.output_schema # None)
        /\ lastData.guided_json = schema_to_guided_json(cur.input_schema, cur.output_schema)

\* the override a call passes: the caller's dict as it was when the call began
Override == IF cur.params = "caller" THEN pre.callerParams ELSE EmptyDict

\* C14: the generation parameters in a call's payload are the session defaults
\* merged with the call's override, the override winning: every key of the
\* override is sent with the override's value and every other key of the
\* session defaults is sent with its default value (guided_json, which the
\* schema injection owns, aside)
C14_ParamsAreMerged ==
    (pc = "returned" /\ outcome.op \in {"gen", "stream"} /\ lastData # EmptyDict) =>
        \A k \in ((DOMAIN pre.params) \cup (DOMAIN Override)) \ {"guided_json"} :
            /\ k \in DOMAIN lastData
            /\ lastData[k] = DictMerge(pre.params, Override)[k]

\* a response of the full chat shape whose content is a JSON document
WellFormedJson(r) ==
    /\ ~LacksExpectedKey(r)
    /\ r.choices # <<>>
    /\ IsJsonObjectText(r.choices[1].message.content)

\* the same call made without its output_schema, on the same session and response
WithoutSchema == gen(pre, [cur EXCEPT !.output_schema = None], lastResponse)

\* C15: gen / gen_async with an output_schema, on a well-formed response,
\* return the value that choices[0].message.content denotes as JSON (a decoded
\* document, not a message) and add the response's three usage figures to the
\* running totals, as the call without output_schema does
C15_SchemaCallReturnsParsed ==
    ( /\ Ended("gen")
      /\ posts = 1
      /\ cur.output_schema # None
      /\ WellFormedJson(lastResponse) ) =>
        /\ outcome.status = "ok"
        /\ outcome.value = JsonDecode(SubSeq(lastResponse.choices[1].message.content, 2,
                                              Len(lastResponse.choices[1].message.content) - 1))
        /\ DOMAIN outcome.value = {"object"}
        /\ Totals = <<PreTotals[1] + lastResponse.usage.prompt_tokens,
                       PreTotals[2] + lastResponse.usage.completion_tokens,
                       PreTotals[3] + lastResponse.usage.total_tokens>>
        /\ WithoutSchema.status = "ok"
        /\ Totals = <<WithoutSchema.s.total_prompt_length,
                       WithoutSchema.s.total_completion_length,
                       WithoutSchema.s.total_length>>

C15_Witness ==
    /\ Ended("gen")
    /\ cur.async
    /\ cur.output_schema # None
    /\ cur.input_schema # None
    /\ lastResponse = BaseBody
    /\ outcome.value = [object |-> <<"o1">>]
    /\ PreTotals = Usage
    /\ Totals = <<4, 2, 6>>

\* the blocking form of the call in progress
Blocking == [cur EXCEPT !.async = FALSE]

\* C16: a call of a suspend-on-I/O entry point ends as the blocking entry
\* point does on the same session, arguments and responses: gen_async as gen,
\* stream_async with the value stream returns (the finalized assistant
\* message) and the same history, gen_with_tools_async with the error
\* gen_with_tools raises for a name that matches no tool
C16_AsyncMatchesSync ==
    (pc = "returned" /\ cur.async) =>
        /\ outcome.op = "gen" =>
              /\ outcome.status = gen(pre, Blocking, lastResponse).status
              /\ Session = gen(pre, Blocking, lastResponse).s
        /\ (outcome.op = "stream" /\ outcome.status = "ok") =>
              /\ Session = StreamFinalize(pre, Blocking, user_message, content).s
              /\ DOMAIN outcome.value = {"role", "content"}
        /\ (outcome.op = "gen_with_tools" /\ UnknownChoice) =>
              outcome.status = "StopIteration"

\* C17: the steps of one gen_with_tools call happen one after the other.  When
\* the selection call has returned, its request (temperature 0 and guided_choice
\* the tool names and the sentinel, nothing of the caller's params) is the only
\* request made and no tool has run; when the tool has returned, still only
\* that request has been made; history changes only when the call has ended
\* well, after the second generation returned
C17_StepsInOrder ==
    /\ pc = "gwt_selected" =>
          /\ posts = 1
          /\ toolCalls = <<>>
          /\ context_dict = EmptyDict
          /\ messages = pre.messages
          /\ DOMAIN lastData = {"model", "messages", "stream", "temperature", "guided_choice"}
          /\ lastData.temperature = "0.0"
          /\ lastData.guided_choice = ToolNames(Tools)
          /\ tool_choice = lastResponse.choices[1].message.content
    /\ pc = "gwt_tool_done" =>
          /\ posts = 1
          /\ Len(toolCalls) = 1
          /\ <<toolCalls[1].tool>> = tool_choice
          /\ "response" \notin DOMAIN context_dict
          /\ messages = pre.messages
    /\ Ended("gen_with_tools") =>
          /\ posts \in {1, 2}
          /\ Len(toolCalls) <= 1
          /\ "response" \in DOMAIN context_dict => (posts = 2 /\ Len(toolCalls) = 1)
          /\ messages # pre.messages => (posts = 2 /\ outcome.status = "ok")
          /\ posts = 1 => lastData.temperature = "0.0"

C17_Witness ==
    /\ GwtDone
    /\ cur.async
    /\ posts = 2
    /\ Len(toolCalls) = 1
    /\ cur.params = "caller"
    /\ pre.callerParams = [k \in {"temperature"} |-> "0.7"]
    /\ Persisting
    /\ messages # pre.messages

\* C18: a gen / gen_async call that ends in the missing-key failure leaves
\* history and the three running totals as they were before the call
C18_FailedGenIsAtomic ==
    (Ended("gen") /\ outcome.status = "KeyError") =>
        /\ messages = pre.messages
        /\ Totals = PreTotals

\* C19: while a stream call is reading lines and yielding events, history is
\* what it was when the call began; a call that the caller abandons, or that
\* fails on a line, leaves it so; a call that reads the response to its end adds
\* the user+assistant pair once when persistence is in effect and nothing otherwise
C19_AppendOnlyAtExhaustion ==
    /\ pc \in {"stream_run", "stream_yield"} => messages = pre.messages
    /\ (Ended("stream") /\ outcome.status # "ok") => messages = pre.messages
    /\ (Ended("stream") /\ outcome.status = "ok") =>
          /\ Len(messages) = Len(pre.messages) + (IF Persisting THEN 2 ELSE 0)
          /\ SubSeq(messages, 1, Len(pre.messages)) = pre.messages
          /\ Persisting =>
                /\ messages[Len(messages) - 1] = user_message
                /\ messages[Len(messages)].role = "assistant"

C19_Witness ==
    /\ Ended("stream")
    /\ outcome.status = "closed"
    /\ Len(events) = 2
    /\ Persisting
    /\ messages = pre.messages

\* C20: a gen / gen_async call with an output_schema leaves history as it was,
\* whatever the save_messages flag and the session-wide policy are; a call
\* without output_schema that returns adds, through add_messages, the user
\* message and the assistant message built from the response
C20_SchemaCallKeepsHistory ==
    /\ (Ended("gen") /\ cur.output_schema # None) => messages = pre.messages
    /\ (Ended("gen") /\ cur.output_schema = None /\ outcome.status = "ok") =>
          messages = pre.messages \o
             (IF Persisting
              THEN << prepare_request(pre, cur).user_message,
                      AssistantMessage(lastResponse.choices[1].message.role,
                                       lastResponse.choices[1].message.content,
                                       lastResponse.choices[1].finish_reason,
                                       lastResponse.usage.prompt_tokens,
                                       lastResponse.usage.completion_tokens,
                                       lastResponse.usage.total_tokens) >>
              ELSE <<>>)

C20_Witness ==
    /\ Ended("gen")
    /\ cur.output_schema # None
    /\ cur.save_messages = "True"
    /\ outcome.status = "ok"
    /\ pre.messages # <<>>
    /\ messages = pre.messages

====
